---- MODULE Spec2Model ----
(***************************************************************************)
(* Model of harem_preprocessing's XMLtoJSON converter (src/xml_to_json.py). *)
(*                                                                         *)
(* Text is a sequence of one-character strings.  A category name is one    *)
(* symbol of the CATEG alphabet (the converter only ever compares whole     *)
(* names).  An absent text, tail or attribute (Python's None) is NoneText.  *)
(* Offsets are Python's: 0-based, end exclusive.                            *)
(***************************************************************************)
EXTENDS Integers, Sequences, FiniteSets, TLC

VARIABLES
    selective,      \* XMLtoJSON(selective=...)
    alt_strategy,   \* XMLtoJSON(alt_strategy=...)
    pc,             \* position of the call being followed
    elem,           \* the element being converted (EM, ALT or other), as read so far
    ret,            \* what _get_label / _convert_entity returned
    raised,         \* the exception that ended the call, "" while none
    doc,            \* the DOC element, as read so far
    text,           \* convert_document: text
    entities,       \* convert_document: entities
    tag_text,       \* _convert_tag: text (_handle_alt: group_text)
    tag_entities,   \* _convert_tag: entities (_handle_alt: chosen_entities)
    alt_text,       \* _iterate_alt_tag: text
    alt_entities,   \* _iterate_alt_tag: entities
    N_max,          \* _handle_alt: N_max, -1 before any ALT was resolved
    converted,      \* history: per child of doc, what _convert_tag's branch
                    \* made of it before its tail (text, and N_max for an ALT)
    kwargs,         \* convert_xml: kwargs, the arguments of XMLtoJSON(...)
    tree,           \* convert_xml: the root element of the parsed tree
    found,          \* convert_xml: tree.findall('//DOC'), what is left to visit
    docs            \* convert_xml: docs

vars == <<selective, alt_strategy, pc, elem, ret, raised, doc, text, entities,
          tag_text, tag_entities, alt_text, alt_entities, N_max, converted,
          kwargs, tree, found, docs>>

xml_vars == <<kwargs, tree, found, docs>>

doc_vars == <<doc, text, entities, tag_text, tag_entities, alt_text,
              alt_entities, N_max, converted>>

----------------------------------------------------------------------------
(* Bounds of the model. *)

MaxTextLen == 2
MaxEntityTextLen == 3
MaxCategLen == 4
MaxSrcLen == 3          \* characters of text in one DOC, all its pieces together
MaxChildren == 2        \* children of one DOC
MaxDocAltEMs == 2       \* EM children of one ALT inside a DOC
MaxAltSrcLen == 5       \* characters of text in one ALT handed to _handle_alt
MaxAltEMs == 3          \* EM children of one ALT handed to _handle_alt

----------------------------------------------------------------------------
(* Strings. *)

NoneText == <<"None">>

Letter == "a"
Space == " "
Comma == ","
Pipe == "|"

Chars == {Letter, Space, Pipe}
EmChars == {Letter, Space, Comma}

StringsUpTo(A, n) == UNION {[1..k -> A] : k \in 0..n}
NonEmptyStrings(A, n) == StringsUpTo(A, n) \ {<<>>}

Texts == NonEmptyStrings(Chars, MaxTextLen)
EmTexts == NonEmptyStrings(EmChars, MaxTextLen)

\* utils._is_whitespace_or_punctuation
is_whitespace_or_punctuation(c) == c \in {Space, Comma, Pipe}

\* str.isspace for one character
IsSpace(c) == c = Space

RECURSIVE lstrip(_)
lstrip(s) ==
    IF s = <<>> THEN <<>>
    ELSE IF IsSpace(Head(s)) THEN lstrip(Tail(s))
    ELSE s

RECURSIVE rstrip(_)
rstrip(s) ==
    IF s = <<>> THEN <<>>
    ELSE IF IsSpace(s[Len(s)]) THEN rstrip(SubSeq(s, 1, Len(s) - 1))
    ELSE s

strip(s) == rstrip(lstrip(s))

\* s.split(d): the pieces of s between the occurrences of d, in order
RECURSIVE split(_, _)
split(s, d) ==
    IF \E i \in 1..Len(s) : s[i] = d
    THEN LET i == CHOOSE j \in 1..Len(s) :
                    s[j] = d /\ \A k \in 1..(j - 1) : s[k] # d
         IN <<SubSeq(s, 1, i - 1)>> \o split(SubSeq(s, i + 1, Len(s)), d)
    ELSE <<s>>

\* Python's s[a:b] for 0 <= a <= b
Slice(s, a, b) == SubSeq(s, a + 1, IF b > Len(s) THEN Len(s) ELSE b)

----------------------------------------------------------------------------
(* Label Resolver. *)

SELECTIVE_CATEGS == {"PESSOA", "ORGANIZACAO", "LOCAL", "TEMPO", "VALOR"}

ALL_CATEGS ==
    SELECTIVE_CATEGS \cup {"ABSTRACCAO", "ACONTECIMENTO", "COISA", "OBRA", "OUTRO"}

\* XMLtoJSON.__init__: self._accepted_labels
accepted_labels(sel) == IF sel THEN SELECTIVE_CATEGS ELSE ALL_CATEGS

NoLabel == "None"

RECURSIVE FirstAccepted(_, _)
FirstAccepted(labels, accepted) ==
    IF labels = <<>> THEN NoLabel
    ELSE IF Len(Head(labels)) = 1 /\ Head(labels)[1] \in accepted
         THEN Head(labels)[1]
         ELSE FirstAccepted(Tail(labels), accepted)

StripAll(parts) == [i \in 1..Len(parts) |-> strip(parts[i])]

get_label_last(categ, sel) ==
    IF categ = NoneText THEN NoLabel
    ELSE LET labels == StripAll(split(categ, Pipe))
             rev == [i \in 1..Len(labels) |-> labels[Len(labels) + 1 - i]]
         IN FirstAccepted(rev, accepted_labels(sel))

get_label_nostrip(categ, sel) ==
    IF categ = NoneText THEN NoLabel
    ELSE FirstAccepted(split(categ, Pipe), accepted_labels(sel))

\* XMLtoJSON._get_label
get_label(categ, sel) ==
    IF categ = NoneText THEN NoLabel
    ELSE FirstAccepted(StripAll(split(categ, Pipe)), accepted_labels(sel))

----------------------------------------------------------------------------
(* Entity Extractor. *)

Entity(id, txt, label, start, end) ==
    [entity_id |-> id, text |-> txt, label |-> label,
     start_offset |-> start, end_offset |-> end]

\* XMLtoJSON._shift_offset
shift_offset(entity, group_offset) ==
    [entity EXCEPT !.start_offset = @ + group_offset,
                   !.end_offset = @ + group_offset]

convert_entity_strip(e, sel) ==
    LET entity_text == strip(e.text)
    IN Entity(e.ID, entity_text, get_label(e.CATEG, sel), 0, Len(entity_text))

convert_entity_tail(e, sel) ==
    LET entity_text == lstrip(e.text) \o (IF e.tail = NoneText THEN <<>> ELSE e.tail)
    IN Entity(e.ID, entity_text, get_label(e.CATEG, sel), 0, Len(entity_text))

\* XMLtoJSON._convert_entity, for an element with a text and an ID
convert_entity(e, sel) ==
    LET entity_text == lstrip(e.text)
    IN Entity(e.ID, entity_text, get_label(e.CATEG, sel), 0, Len(entity_text))

\* The exception _convert_entity ends with, "" when it returns
convert_entity_raises(e) ==
    IF e.text = NoneText THEN "AttributeError"
    ELSE IF e.ID = NoneText THEN "KeyError"
    ELSE ""

NoEntity == Entity(NoneText, <<>>, NoLabel, 0, 0)

NoElem == [tag |-> "", ID |-> NoneText, CATEG |-> NoneText, text |-> NoneText,
           tail |-> NoneText, children |-> <<>>]

NoDoc == [tag |-> "", DOCID |-> NoneText, text |-> NoneText, children |-> <<>>]

NoKwargs == [selective |-> "", alt_strategy |-> ""]

\* convert_xml is not running
NoCorpus ==
    /\ kwargs = NoKwargs
    /\ tree = NoElem
    /\ found = <<>>
    /\ docs = <<>>

Idle ==
    /\ NoCorpus
    /\ doc = NoDoc
    /\ text = <<>>
    /\ entities = <<>>
    /\ tag_text = <<>>
    /\ tag_entities = <<>>
    /\ alt_text = <<>>
    /\ alt_entities = <<>>
    /\ N_max = -1
    /\ converted = <<>>

----------------------------------------------------------------------------
(* _get_label called on one EM element. *)

CategChars == {"PESSOA", "LOCAL", "OBRA", "x", Space, Pipe}

Categs == {NoneText} \cup StringsUpTo(CategChars, MaxCategLen)

InitLabel ==
    /\ selective \in BOOLEAN
    /\ alt_strategy = "most_entities"
    /\ pc = "call"
    /\ \E c \in Categs :
          elem = [NoElem EXCEPT !.tag = "EM", !.ID = <<"383">>, !.CATEG = c]
    /\ ret = NoEntity
    /\ raised = ""
    /\ Idle

GetLabel ==
    /\ pc = "call"
    /\ pc' = "returned"
    /\ ret' = [NoEntity EXCEPT !.label = get_label(elem.CATEG, selective)]
    /\ UNCHANGED xml_vars
    /\ UNCHANGED <<selective, alt_strategy, elem, raised>>
    /\ UNCHANGED doc_vars

NextLabel == GetLabel

SpecLabel == InitLabel /\ [][NextLabel]_vars

\* The candidate of c that lies between the delimiter places p and q (0 and
\* Len(c) + 1 stand for the two ends) is the one name L, spaces around it aside.
IsCandidate(c, p, q) ==
    /\ p < q
    /\ p = 0 \/ c[p] = Pipe
    /\ q = Len(c) + 1 \/ c[q] = Pipe
    /\ \A m \in (p + 1)..(q - 1) : c[m] # Pipe

Names(c, p, q, L) ==
    /\ IsCandidate(c, p, q)
    /\ \E k \in (p + 1)..(q - 1) :
          /\ c[k] = L
          /\ \A m \in ((p + 1)..(q - 1)) \ {k} : c[m] = Space

AcceptedAt(c, p, sel) ==
    \E q \in 1..(Len(c) + 1), L \in accepted_labels(sel) : Names(c, p, q, L)

\* C3: _get_label returns the first candidate of CATEG (split on '|', spaces
\* around each candidate stripped, left to right) that is in the scenario's
\* accepted set, and null when CATEG is absent or no candidate is accepted.
C3_LabelFirstMatch ==
    pc = "returned" =>
        LET c == elem.CATEG
            places == IF c = NoneText THEN {} ELSE 0..Len(c)
            hits == {p \in places : AcceptedAt(c, p, selective)}
        IN IF hits = {}
           THEN ret.label = NoLabel
           ELSE LET first == CHOOSE p \in hits : \A r \in hits : p <= r
                IN /\ ret.label \in accepted_labels(selective)
                   /\ \E q \in 1..(Len(c) + 1) : Names(c, first, q, ret.label)

\* C3, "A|B" with only B accepted: the selective scenario skips a total-only
\* first candidate and returns the second one.
C3_Witness ==
    /\ pc = "returned"
    /\ selective
    /\ elem.CATEG = <<"OBRA", Space, Pipe, "PESSOA">>
    /\ ret.label = "PESSOA"

----------------------------------------------------------------------------
(* _convert_entity called on one EM element. *)

EntityTexts == NonEmptyStrings(EmChars, MaxEntityTextLen)

EmCategs == {NoneText, <<"PESSOA">>, <<"OBRA">>, <<"OBRA", Pipe, "PESSOA">>, <<"x">>}

InitEntity ==
    /\ selective \in BOOLEAN
    /\ alt_strategy = "most_entities"
    /\ pc = "call"
    /\ \E id \in {NoneText, <<"1">>, <<"2">>}, c \in EmCategs,
          t \in {NoneText} \cup EntityTexts, tl \in {NoneText} \cup Texts,
          ch \in {<<>>, <<NoElem>>} :
          elem = [tag |-> "EM", ID |-> id, CATEG |-> c, text |-> t,
                  tail |-> tl, children |-> ch]
    /\ ret = NoEntity
    /\ raised = ""
    /\ Idle

ConvertEntity ==
    /\ pc = "call"
    /\ IF convert_entity_raises(elem) # ""
       THEN /\ pc' = "raised"
            /\ raised' = convert_entity_raises(elem)
            /\ ret' = ret
       ELSE /\ pc' = "returned"
            /\ ret' = convert_entity(elem, selective)
            /\ raised' = raised
    /\ UNCHANGED xml_vars
    /\ UNCHANGED <<selective, alt_strategy, elem>>
    /\ UNCHANGED doc_vars

NextEntity == ConvertEntity

SpecEntity == InitEntity /\ [][NextEntity]_vars

\* t without its leading whitespace: the suffix of t after its first k places,
\* all of them whitespace, that does not itself start with whitespace.
IsLeftStripped(t, r) ==
    \E k \in 0..Len(t) :
        /\ \A i \in 1..k : IsSpace(t[i])
        /\ k = Len(t) \/ ~IsSpace(t[k + 1])
        /\ r = SubSeq(t, k + 1, Len(t))

\* C4: for an EM with an ID and inline text, _convert_entity returns the ID,
\* the text with leading whitespace removed and trailing whitespace kept,
\* offsets 0 and len(text), and _get_label's label; tail and children play
\* no part.
C4_EntityExtraction ==
    (pc = "returned" /\ elem.tag = "EM") =>
        /\ ret.entity_id = elem.ID
        /\ IsLeftStripped(elem.text, ret.text)
        /\ ret.start_offset = 0
        /\ ret.end_offset = Len(ret.text)
        /\ ret.label = get_label(elem.CATEG, selective)

\* C4: an EM with whitespace on both sides of its text, a tail and a child.
C4_Witness ==
    /\ pc = "returned"
    /\ elem.text = <<Space, Letter, Space>>
    /\ elem.tail # NoneText
    /\ elem.children # <<>>
    /\ ret.text = <<Letter, Space>>
    /\ ret.end_offset = 2

----------------------------------------------------------------------------
(* Agglutination guard. *)

Result(err, txt) == [raised |-> err, text |-> txt]

Last(s) == s[Len(s)]

avoid_word_agglutination_left(txt, insertion) ==
    IF txt = <<>> THEN Result("", txt)
    ELSE IF is_whitespace_or_punctuation(Last(txt)) THEN Result("", txt)
    ELSE IF insertion = <<>> THEN Result("IndexError", txt)
    ELSE Result("", Append(txt, Space))

\* XMLtoJSON._avoid_word_agglutination; insertion[0] raises IndexError on ''
avoid_word_agglutination(txt, insertion) ==
    IF txt = <<>> THEN Result("", txt)
    ELSE IF is_whitespace_or_punctuation(Last(txt)) THEN Result("", txt)
    ELSE IF insertion = <<>> THEN Result("IndexError", txt)
    ELSE IF ~is_whitespace_or_punctuation(Head(insertion))
         THEN Result("", Append(txt, Space))
         ELSE Result("", txt)

\* XMLtoJSON.append_text_safe; piece[0] raises IndexError on ''
append_text_safe(txt, piece) ==
    IF txt # <<>> /\ ~is_whitespace_or_punctuation(Last(txt))
    THEN IF piece = <<>> THEN Result("IndexError", txt)
         ELSE IF ~is_whitespace_or_punctuation(Head(piece))
              THEN Result("", Append(txt, Space) \o piece)
              ELSE Result("", txt \o piece)
    ELSE Result("", txt \o piece)

----------------------------------------------------------------------------
(* Alternative-Block Resolver. *)

Flat(err, txt, ents) == [raised |-> err, text |-> txt, entities |-> ents]

iterate_alt_em_skip(txt, ents, em, sel) ==
    IF convert_entity_raises(em) # ""
    THEN Flat(convert_entity_raises(em), txt, ents)
    ELSE LET entity == convert_entity(em, sel)
             r == IF entity.label # NoLabel
                  THEN append_text_safe(txt, entity.text)
                  ELSE Result("", txt)
             ents2 == IF entity.label # NoLabel
                      THEN Append(ents, shift_offset(entity, Len(txt)))
                      ELSE ents
         IN IF r.raised # "" THEN Flat(r.raised, txt, ents2)
            ELSE IF em.tail # NoneText /\ em.tail # <<>>
                 THEN Flat("", append_text_safe(r.text, em.tail).text, ents2)
                 ELSE Flat("", r.text, ents2)

\* One pass of the loop of XMLtoJSON._iterate_alt_tag, over the EM child em
iterate_alt_em(txt, ents, em, sel) ==
    IF convert_entity_raises(em) # ""
    THEN Flat(convert_entity_raises(em), txt, ents)
    ELSE LET entity == convert_entity(em, sel)
             ents2 == IF entity.label # NoLabel
                      THEN Append(ents, shift_offset(entity, Len(txt)))
                      ELSE ents
             r == append_text_safe(txt, entity.text)
         IN IF r.raised # "" THEN Flat(r.raised, txt, ents2)
            ELSE IF em.tail # NoneText /\ em.tail # <<>>
                 THEN Flat("", append_text_safe(r.text, em.tail).text, ents2)
                 ELSE Flat("", r.text, ents2)

RECURSIVE SortedSeq(_)
SortedSeq(S) ==
    IF S = {} THEN <<>>
    ELSE LET m == CHOOSE x \in S : \A y \in S : x <= y
         IN <<m>> \o SortedSeq(S \ {m})

\* [div.start() for div in re.finditer(r'\|', alt_text)]
divs_of(txt) == SortedSeq({i - 1 : i \in {j \in 1..Len(txt) : txt[j] = Pipe}})

\* The loop of XMLtoJSON._split_alternatives over alt_entities; st holds its
\* locals (group_ix and the offsets are Python's, 0-based)
RECURSIVE split_loop(_, _, _, _)
split_loop(ents, st, divs, alt_len) ==
    IF ents = <<>> \/ st.raised # "" THEN st
    ELSE LET entity == Head(ents)
             moved == entity.start_offset > st.current_group_end
             ix == IF moved THEN st.group_ix + 1 ELSE st.group_ix
             gso == IF moved THEN st.current_group_end + 1
                    ELSE st.group_start_offset
             cge == IF moved /\ ix < Len(divs) THEN divs[ix + 1]
                    ELSE IF moved /\ ix = Len(divs) THEN alt_len
                    ELSE st.current_group_end
         IN IF ix >= Len(st.groups)
            THEN [st EXCEPT !.raised = "IndexError"]
            ELSE split_loop(
                    Tail(ents),
                    [group_ix |-> ix,
                     group_start_offset |-> gso,
                     current_group_end |-> cge,
                     groups |-> [st.groups EXCEPT
                                   ![ix + 1] = Append(@, shift_offset(entity, -gso))],
                     raised |-> ""],
                    divs, alt_len)

\* XMLtoJSON._split_alternatives
split_alternatives(txt, ents) ==
    LET alt_texts == split(txt, Pipe)
    IN IF Len(alt_texts) < 2
       THEN [raised |-> "HypothesisViolation", alt_texts |-> alt_texts,
             groups |-> <<>>]
       ELSE LET divs == divs_of(txt)
                st == split_loop(
                        ents,
                        [group_ix |-> 0, group_start_offset |-> 0,
                         current_group_end |-> divs[1],
                         groups |-> [i \in 1..Len(alt_texts) |-> <<>>],
                         raised |-> ""],
                        divs, Len(txt))
            IN [raised |-> st.raised, alt_texts |-> alt_texts,
                groups |-> st.groups]

RECURSIVE SumLen(_)
SumLen(ents) ==
    IF ents = <<>> THEN 0 ELSE Len(Head(ents).text) + SumLen(Tail(ents))

\* scores.index(max(scores)), 0-based: the first place that holds the maximum
index_of_max(scores) ==
    (CHOOSE i \in 1..Len(scores) :
        /\ \A j \in 1..Len(scores) : scores[j] <= scores[i]
        /\ \A j \in 1..(i - 1) : scores[j] < scores[i]) - 1

Strategies == {"most_entities", "entity_coverage"}

scores_by_count(groups, strategy) ==
    [i \in 1..Len(groups) |-> Len(groups[i])]

\* XMLtoJSON._handle_alt, lines 215-238: the score of each group
scores_of(groups, strategy) ==
    IF strategy = "most_entities"
    THEN [i \in 1..Len(groups) |-> Len(groups[i])]
    ELSE [i \in 1..Len(groups) |-> SumLen(groups[i])]

handle_alt_lenient(txt, ents, strategy) ==
    LET sp == split_alternatives(txt, ents)
    IN IF sp.raised # ""
       THEN [raised |-> "", N_max |-> 0, group_text |-> txt,
             chosen_entities |-> ents]
       ELSE LET n == index_of_max(scores_of(sp.groups, strategy))
            IN [raised |-> "", N_max |-> n, group_text |-> sp.alt_texts[n + 1],
                chosen_entities |-> sp.groups[n + 1]]

\* XMLtoJSON._handle_alt, after _iterate_alt_tag returned (txt, ents)
handle_alt(txt, ents, strategy) ==
    LET sp == split_alternatives(txt, ents)
    IN IF sp.raised # ""
       THEN [raised |-> sp.raised, N_max |-> -1, group_text |-> <<>>,
             chosen_entities |-> <<>>]
       ELSE LET n == index_of_max(scores_of(sp.groups, strategy))
            IN [raised |-> "", N_max |-> n, group_text |-> sp.alt_texts[n + 1],
                chosen_entities |-> sp.groups[n + 1]]

----------------------------------------------------------------------------
(* Text Assembler. *)

convert_tag_tail_dropped(txt, tail) ==
    IF tail = NoneText \/ txt = <<>> THEN Result("", txt)
    ELSE LET r == avoid_word_agglutination(txt, tail)
         IN IF r.raised # "" THEN r ELSE Result("", r.text \o tail)

\* XMLtoJSON._convert_tag, lines 299-301: the tail after the tag's own text
convert_tag_tail(txt, tail) ==
    IF tail = NoneText THEN Result("", txt)
    ELSE LET r == avoid_word_agglutination(txt, tail)
         IN IF r.raised # "" THEN r ELSE Result("", r.text \o tail)

ShiftAll(ents, n) == [i \in 1..Len(ents) |-> shift_offset(ents[i], n)]

\* XMLtoJSON.convert_document, lines 321-333: one tag's text and entities
\* folded into the document's
fold_tag(txt, ents, t_text, t_entities) ==
    LET r == avoid_word_agglutination(txt, t_text)
    IN IF r.raised # "" THEN Flat(r.raised, txt, ents)
       ELSE LET shifted == ShiftAll(t_entities, Len(r.text))
                r2 == IF t_text # <<>> THEN append_text_safe(r.text, t_text)
                      ELSE r
            IN Flat(r2.raised, r2.text, ents \o shifted)

----------------------------------------------------------------------------
(* The elements the converter reads.  An element's parts are drawn when the   *)
(* code first reads them; elem and doc hold what was read so far.             *)

Min(a, b) == IF a < b THEN a ELSE b

TextLen(t) == IF t = NoneText THEN 0 ELSE Len(t)

RECURSIVE ElemsSrcLen(_)
ElemsSrcLen(es) ==
    IF es = <<>> THEN 0
    ELSE TextLen(Head(es).text) + TextLen(Head(es).tail)
         + ElemsSrcLen(Head(es).children) + ElemsSrcLen(Tail(es))

RECURSIVE CountEMs(_)
CountEMs(es) ==
    IF es = <<>> THEN 0
    ELSE (IF Head(es).tag = "EM" THEN 1 ELSE 0)
         + CountEMs(Head(es).children) + CountEMs(Tail(es))

InFlight == IF pc \in {"alt_call", "alt", "tail"} THEN <<elem>> ELSE <<>>

\* Characters of text read so far, and what is left of the budget
SrcLen == TextLen(doc.text) + ElemsSrcLen(doc.children) + ElemsSrcLen(InFlight)
Room(budget) == budget - SrcLen

\* An absent text, or one of at most n characters (and at most MaxTextLen)
OptTexts(A, n) == {NoneText} \cup NonEmptyStrings(A, Min(n, MaxTextLen))

IDNames == <<"1", "2", "3", "4", "5", "6", "7", "8", "9", "10", "11", "12">>

\* IDs are unique in a document: the k-th EM read carries the k-th ID
NextID == <<IDNames[CountEMs(doc.children) + CountEMs(InFlight) + 1]>>

DocCategs == {NoneText, <<"PESSOA">>, <<"OBRA">>}

EM(id, c, t, tl) ==
    [tag |-> "EM", ID |-> id, CATEG |-> c, text |-> t, tail |-> tl,
     children |-> <<>>]

\* The Document convert_document returns
Document == [doc_id |-> doc.DOCID, doc_text |-> text, entities |-> entities]

----------------------------------------------------------------------------
(* _handle_alt: _iterate_alt_tag, then _split_alternatives and the choice. *)

\* _iterate_alt_tag, lines 112-116
IterateAltTagStart ==
    /\ pc = "alt_call"
    /\ pc' = "alt"
    /\ alt_text' = IF elem.text # NoneText THEN elem.text ELSE <<>>
    /\ alt_entities' = <<>>
    /\ UNCHANGED xml_vars
    /\ UNCHANGED <<selective, alt_strategy, elem, ret, raised, doc, text,
                   entities, tag_text, tag_entities, N_max, converted>>

\* _iterate_alt_tag, lines 118-127: the loop takes the next child, an EM
IterateAltTagEM(maxEMs, budget, ids, categs) ==
    /\ pc = "alt"
    /\ Len(elem.children) < maxEMs
    /\ \E t \in OptTexts(EmChars, Room(budget)) :
       \E id \in IF t = NoneText THEN {NextID} ELSE ids,
          c \in IF t = NoneText THEN {NoneText} ELSE categs,
          tl \in IF t = NoneText THEN {NoneText}
                 ELSE OptTexts(Chars, Room(budget) - TextLen(t)) :
          LET em == EM(id, c, t, tl)
              r == iterate_alt_em(alt_text, alt_entities, em, selective)
          IN /\ elem' = [elem EXCEPT !.children = Append(@, em)]
             /\ raised' = r.raised
             /\ pc' = IF r.raised # "" THEN "raised" ELSE "alt"
             /\ alt_text' = r.text
             /\ alt_entities' = r.entities
    /\ UNCHANGED xml_vars
    /\ UNCHANGED <<selective, alt_strategy, ret, doc, text, entities,
                   tag_text, tag_entities, N_max, converted>>

\* _handle_alt, lines 211-246, once the loop of _iterate_alt_tag has ended
HandleAlt(then) ==
    /\ pc = "alt"
    /\ LET r == handle_alt(alt_text, alt_entities, alt_strategy)
       IN /\ raised' = r.raised
          /\ pc' = IF r.raised # "" THEN "raised" ELSE then
          /\ N_max' = r.N_max
          /\ tag_text' = r.group_text
          /\ tag_entities' = r.chosen_entities
    /\ UNCHANGED xml_vars
    /\ UNCHANGED <<selective, alt_strategy, elem, ret, doc, text, entities,
                   alt_text, alt_entities, converted>>

InitAlt ==
    /\ selective \in BOOLEAN
    /\ alt_strategy \in Strategies
    /\ pc = "alt_call"
    /\ \E t \in OptTexts(Chars, MaxAltSrcLen) :
          elem = [NoElem EXCEPT !.tag = "ALT", !.text = t]
    /\ ret = NoEntity
    /\ raised = ""
    /\ Idle

AltCategs == {<<"PESSOA">>, <<"OBRA">>}

IterateAltTagEMAlone ==
    IterateAltTagEM(MaxAltEMs, MaxAltSrcLen, {NextID}, AltCategs)

HandleAltReturn == HandleAlt("returned")

NextAlt == IterateAltTagStart \/ IterateAltTagEMAlone \/ HandleAltReturn

SpecAlt == InitAlt /\ [][NextAlt]_vars

\* What the source of an ALT says: the segment an EM child lies in is the
\* number of '|' in the ALT's inline text and in the tails before that child.
PipeCount(t) ==
    IF t = NoneText THEN 0 ELSE Cardinality({i \in 1..Len(t) : t[i] = Pipe})

RECURSIVE TailPipes(_, _)
TailPipes(ems, k) ==
    IF k = 0 THEN 0 ELSE PipeCount(ems[k].tail) + TailPipes(ems, k - 1)

SegOf(alt, k) == PipeCount(alt.text) + TailPipes(alt.children, k - 1)

SegCount(alt) == PipeCount(alt.text) + TailPipes(alt.children, Len(alt.children)) + 1

IsAccepted(em) == get_label(em.CATEG, selective) # NoLabel

\* The accepted EM children of alt in segment seg, as places in alt.children
AcceptedIn(alt, seg) ==
    {k \in 1..Len(alt.children) : SegOf(alt, k) = seg /\ IsAccepted(alt.children[k])}

IDsAt(alt, S) == LET ks == SortedSeq(S) IN [i \in 1..Len(ks) |-> alt.children[ks[i]].ID]

EntityIDs(ents) == [i \in 1..Len(ents) |-> ents[i].entity_id]

\* The text of segment seg (0-based) of the flattened text txt
SegText(txt, seg) ==
    LET bars == <<0>> \o SortedSeq({i \in 1..Len(txt) : txt[i] = Pipe})
                     \o <<Len(txt) + 1>>
    IN SubSeq(txt, bars[seg + 1] + 1, bars[seg + 2] - 1)

SlicesRight(txt, ents) ==
    \A i \in 1..Len(ents) :
        /\ 0 <= ents[i].start_offset
        /\ ents[i].start_offset <= ents[i].end_offset
        /\ ents[i].end_offset <= Len(txt)
        /\ Slice(txt, ents[i].start_offset, ents[i].end_offset) = ents[i].text

OnlySecondHasEntity ==
    /\ pc = "returned"
    /\ elem.tag = "ALT"
    /\ SegCount(elem) = 2
    /\ AcceptedIn(elem, 0) = {}
    /\ AcceptedIn(elem, 1) # {}

\* C5: for an ALT whose flattened text is "X|Y" and in which only Y holds an
\* entity with an accepted label, _handle_alt returns Y's text and exactly
\* Y's entities, their offsets relative to the start of Y, under both
\* strategies.
C5_OnlyYSelected ==
    OnlySecondHasEntity =>
        /\ tag_text = SegText(alt_text, 1)
        /\ EntityIDs(tag_entities) = IDsAt(elem, AcceptedIn(elem, 1))
        /\ SlicesRight(tag_text, tag_entities)

OneAgainstTwo ==
    /\ pc = "returned"
    /\ elem.tag = "ALT"
    /\ SegCount(elem) = 2
    /\ Cardinality(AcceptedIn(elem, 0)) = 1
    /\ Cardinality(AcceptedIn(elem, 1)) = 2
    /\ LET one == CHOOSE k \in AcceptedIn(elem, 0) : TRUE
           two == SortedSeq(AcceptedIn(elem, 1))
           len(k) == Len(lstrip(elem.children[k].text))
       IN len(two[1]) + len(two[2]) < len(one)

\* C6: when segment 1 holds one accepted entity and segment 2 holds two
\* accepted entities whose texts are together shorter than the first one's,
\* most_entities returns segment 2 with its two entities and entity_coverage
\* returns segment 1 with its one entity.
C6_CountVersusCoverage ==
    OneAgainstTwo =>
        LET seg == IF alt_strategy = "most_entities" THEN 1 ELSE 0
        IN /\ N_max = seg
           /\ tag_text = SegText(alt_text, seg)
           /\ EntityIDs(tag_entities) = IDsAt(elem, AcceptedIn(elem, seg))
           /\ \A i \in 1..Len(tag_entities) :
                 \E k \in AcceptedIn(elem, seg) :
                    /\ tag_entities[i].entity_id = elem.children[k].ID
                    /\ tag_entities[i].text = lstrip(elem.children[k].text)
                    /\ tag_entities[i].label = elem.children[k].CATEG[1]

\* C6: coverage prefers the one long entity over two entities, one of them
\* with text, that are together shorter.
C6_Witness ==
    /\ OneAgainstTwo
    /\ alt_strategy = "entity_coverage"
    /\ N_max = 0
    /\ Len(tag_entities) = 1
    /\ Len(tag_entities[1].text) = 2
    /\ \E k \in AcceptedIn(elem, 1) : Len(lstrip(elem.children[k].text)) = 1

----------------------------------------------------------------------------
(* convert_document on one DOC element. *)

Init ==
    /\ selective \in BOOLEAN
    /\ alt_strategy \in Strategies
    /\ pc = "call"
    /\ \E tg \in {"DOC", "HAREM"}, t \in OptTexts(Chars, MaxSrcLen) :
          doc = [tag |-> tg, DOCID |-> NoneText, text |-> t, children |-> <<>>]
    /\ elem = NoElem
    /\ ret = NoEntity
    /\ raised = ""
    /\ text = <<>>
    /\ entities = <<>>
    /\ tag_text = <<>>
    /\ tag_entities = <<>>
    /\ alt_text = <<>>
    /\ alt_entities = <<>>
    /\ N_max = -1
    /\ converted = <<>>
    /\ NoCorpus

\* convert_document, lines 309-317
ConvertDocumentStart ==
    /\ pc = "call"
    /\ IF doc.tag # "DOC"
       THEN /\ pc' = "raised"
            /\ raised' = "ValueError"
            /\ text' = text
       ELSE /\ pc' = "doc"
            /\ raised' = raised
            /\ text' = IF doc.text # NoneText THEN doc.text ELSE <<>>
    /\ UNCHANGED xml_vars
    /\ UNCHANGED <<selective, alt_strategy, elem, ret, doc, entities, tag_text,
                   tag_entities, alt_text, alt_entities, N_max, converted>>

\* _convert_tag, lines 285-292: the loop of convert_document takes the next
\* child, an EM
ConvertTagEM ==
    /\ pc = "doc"
    /\ Len(doc.children) < MaxChildren
    /\ \E t \in OptTexts(EmChars, Room(MaxSrcLen)) :
       \E id \in IF t = NoneText THEN {NextID} ELSE {NextID, NoneText},
          c \in IF t = NoneText THEN {NoneText} ELSE DocCategs :
          LET em == EM(id, c, t, NoneText)
              entity == convert_entity(em, selective)
          IN /\ elem' = em
             /\ raised' = convert_entity_raises(em)
             /\ IF convert_entity_raises(em) # ""
                THEN /\ pc' = "raised"
                     /\ UNCHANGED <<tag_text, tag_entities>>
                ELSE /\ pc' = "tail"
                     /\ tag_text' = entity.text
                     /\ tag_entities' = IF entity.label # NoLabel
                                        THEN <<entity>> ELSE <<>>
    /\ UNCHANGED xml_vars
    /\ UNCHANGED <<selective, alt_strategy, ret, doc, text, entities,
                   alt_text, alt_entities, N_max, converted>>

\* _convert_tag, lines 285-286 and 294-295: the next child is an ALT
ConvertTagALT ==
    /\ pc = "doc"
    /\ Len(doc.children) < MaxChildren
    /\ \E t \in OptTexts(Chars, Room(MaxSrcLen)) :
          elem' = [NoElem EXCEPT !.tag = "ALT", !.text = t]
    /\ pc' = "alt_call"
    /\ UNCHANGED xml_vars
    /\ UNCHANGED <<selective, alt_strategy, ret, raised, doc, text, entities,
                   tag_text, tag_entities, alt_text, alt_entities, N_max, converted>>

IterateAltTagEMInDoc ==
    IterateAltTagEM(MaxDocAltEMs, MaxSrcLen, {NextID}, DocCategs)

\* _convert_tag, lines 295-297
HandleAltInTag == HandleAlt("tail")

\* _convert_tag, lines 285-286: the next child is neither an EM nor an ALT
ConvertTagOther ==
    /\ pc = "doc"
    /\ Len(doc.children) < MaxChildren
    /\ elem' = [NoElem EXCEPT !.tag = "P"]
    /\ pc' = "tail"
    /\ tag_text' = <<>>
    /\ tag_entities' = <<>>
    /\ UNCHANGED xml_vars
    /\ UNCHANGED <<selective, alt_strategy, ret, raised, doc, text, entities,
                   alt_text, alt_entities, N_max, converted>>

\* _convert_tag, lines 299-303, then convert_document, lines 320-333
ConvertTagTail ==
    /\ pc = "tail"
    /\ \E tl \in OptTexts(Chars, Room(MaxSrcLen)) :
          LET r == convert_tag_tail(tag_text, tl)
              f == fold_tag(text, entities, r.text, tag_entities)
          IN /\ elem' = [elem EXCEPT !.tail = tl]
             /\ doc' = [doc EXCEPT !.children = Append(@, elem')]
             /\ converted' = Append(converted,
                                    [text |-> tag_text,
                                     N_max |-> IF elem.tag = "ALT" THEN N_max
                                               ELSE -1])
             /\ IF r.raised # ""
                THEN /\ pc' = "raised"
                     /\ raised' = r.raised
                     /\ UNCHANGED <<text, entities, tag_text, tag_entities>>
                ELSE /\ tag_text' = r.text
                     /\ raised' = f.raised
                     /\ IF f.raised # ""
                        THEN /\ pc' = "raised"
                             /\ UNCHANGED <<text, entities, tag_entities>>
                        ELSE /\ pc' = "doc"
                             /\ text' = f.text
                             /\ entities' = f.entities
                             /\ tag_entities' = ShiftAll(tag_entities,
                                                   Len(f.text) - Len(r.text))
    /\ UNCHANGED xml_vars
    /\ UNCHANGED <<selective, alt_strategy, ret, alt_text, alt_entities, N_max>>

\* convert_document, lines 335-339: the loop has ended
ConvertDocumentReturn ==
    /\ pc = "doc"
    /\ \E id \in {NoneText, <<"HAREM-1">>} :
          /\ doc' = [doc EXCEPT !.DOCID = id]
          /\ IF id = NoneText
             THEN pc' = "raised" /\ raised' = "KeyError"
             ELSE pc' = "done" /\ raised' = raised
    /\ UNCHANGED xml_vars
    /\ UNCHANGED <<selective, alt_strategy, elem, ret, text, entities,
                   tag_text, tag_entities, alt_text, alt_entities, N_max, converted>>

Next ==
    \/ ConvertDocumentStart
    \/ ConvertTagEM
    \/ ConvertTagALT
    \/ IterateAltTagStart
    \/ IterateAltTagEMInDoc
    \/ HandleAltInTag
    \/ ConvertTagOther
    \/ ConvertTagTail
    \/ ConvertDocumentReturn

Spec == Init /\ [][Next]_vars

----------------------------------------------------------------------------
(* Properties of the Document convert_document returns. *)

\* C1: in every Document returned, doc_text[start_offset:end_offset] is the
\* entity's text, for every entity.
C1_OffsetSlice ==
    pc = "done" =>
        \A i \in 1..Len(Document.entities) :
            LET e == Document.entities[i]
            IN Slice(Document.doc_text, e.start_offset, e.end_offset) = e.text

\* C2: in every Document returned, 0 <= start_offset < end_offset <=
\* len(doc_text) for every entity; no entity is empty.
C2_OffsetBounds ==
    pc = "done" =>
        \A i \in 1..Len(Document.entities) :
            LET e == Document.entities[i]
            IN /\ 0 <= e.start_offset
               /\ e.start_offset < e.end_offset
               /\ e.end_offset <= Len(Document.doc_text)

\* A guard space is due between l and r
GuardDue(l, r) ==
    /\ l # <<>>
    /\ r # <<>>
    /\ ~is_whitespace_or_punctuation(l[Len(l)])
    /\ ~is_whitespace_or_punctuation(r[1])

Joined(l, r) == IF GuardDue(l, r) THEN l \o <<Space>> \o r ELSE l \o r

OrEmpty(t) == IF t = NoneText THEN <<>> ELSE t

\* C7: at both joins made for a child (its produced text + its tail in
\* _convert_tag, the running document text + the result in convert_document)
\* exactly one space is inserted when the left text is not empty and both
\* boundary characters are neither whitespace nor punctuation, and nothing
\* otherwise; the two-step guard of convert_document never inserts two.
C7_AgglutinationGuard ==
    [][(pc = "tail" /\ pc' = "doc") =>
          LET returned == Joined(tag_text, OrEmpty(elem'.tail))
          IN /\ tag_text' = returned
             /\ text' = Joined(text, returned)]_vars

\* C7: one space went between the DOC's text 'a' and an EM 'a', and one
\* between that EM and its tail 'a'.
C7_Witness ==
    /\ pc = "doc"
    /\ doc.text = <<Letter>>
    /\ Len(doc.children) = 1
    /\ doc.children[1].tag = "EM"
    /\ doc.children[1].text = <<Letter>>
    /\ doc.children[1].tail = <<Letter>>
    /\ text = <<Letter, Space, Letter, Space, Letter>>

\* The pieces a document is joined from: the DOC's inline text, then for each
\* child what was made of it and its tail
RECURSIVE ChildPieces(_, _)
ChildPieces(children, conv) ==
    IF children = <<>> THEN <<>>
    ELSE <<Head(conv).text, OrEmpty(Head(children).tail)>>
         \o ChildPieces(Tail(children), Tail(conv))

Pieces == <<OrEmpty(doc.text)>> \o ChildPieces(doc.children, converted)

RECURSIVE JoinAll(_)
JoinAll(ps) ==
    IF ps = <<>> THEN <<>>
    ELSE Joined(JoinAll(SubSeq(ps, 1, Len(ps) - 1)), ps[Len(ps)])

RECURSIVE Concat(_)
Concat(ps) == IF ps = <<>> THEN <<>> ELSE Head(ps) \o Concat(Tail(ps))

NonEmpty(ps) == SelectSeq(ps, LAMBDA x : x # <<>>)

NoGuardDue(ps) ==
    LET ne == NonEmpty(ps)
    IN \A i \in 1..(Len(ne) - 1) : ~GuardDue(ne[i], ne[i + 1])

OnlyEMandALT == \A i \in 1..Len(doc.children) : doc.children[i].tag \in {"EM", "ALT"}

\* What was made of the children is what the claim names: an EM's inline text
\* without its leading whitespace, the chosen segment of an ALT
ProducedAsNamed ==
    /\ Len(converted) = Len(doc.children)
    /\ \A i \in 1..Len(doc.children) :
          doc.children[i].tag = "EM" =>
              IsLeftStripped(doc.children[i].text, converted[i].text)
    /\ (doc.children # <<>> /\ doc.children[Len(doc.children)].tag = "ALT") =>
          /\ converted[Len(converted)].N_max = N_max
          /\ converted[Len(converted)].text = SegText(alt_text, N_max)

\* C8: for a DOC of EM and ALT children, doc_text is the left-to-right join of
\* the DOC's inline text, then per child its produced text and its tail; only
\* guard spaces are added, and none where no boundary needs one.
C8_TextCompleteness ==
    (pc \in {"doc", "done"} /\ OnlyEMandALT) =>
        /\ ProducedAsNamed
        /\ text = JoinAll(Pieces)
        /\ NoGuardDue(Pieces) => text = Concat(Pieces)

\* C8: a returned document of an EM and an ALT child, one boundary guarded
C8_Witness ==
    /\ pc = "done"
    /\ Len(doc.children) = 2
    /\ doc.children[1].tag = "EM"
    /\ doc.children[2].tag = "ALT"
    /\ converted[1].text # <<>>
    /\ converted[2].text # <<>>
    /\ Len(text) = Len(Concat(Pieces)) + 1

\* s occurs in t
Occurs(s, t) == \E i \in 0..(Len(t) - Len(s)) : SubSeq(t, i + 1, i + Len(s)) = s

Dropped(em) == em.tag = "EM" /\ ~IsAccepted(em)

EveryLabelAccepted ==
    \A i \in 1..Len(entities) : entities[i].label \in accepted_labels(selective)

NotEmitted(em) == \A i \in 1..Len(entities) : entities[i].entity_id # em.ID

\* C9 as stated: no entity of a returned Document has a null label; an EM
\* whose CATEG is absent or not accepted is not in entities, as a child of the
\* DOC or inside an ALT, while its text still appears in doc_text.
C9_DroppedTextKept ==
    pc = "done" =>
        /\ EveryLabelAccepted
        /\ \A i \in 1..Len(doc.children) :
              LET ch == doc.children[i]
              IN /\ Dropped(ch) =>
                       NotEmitted(ch) /\ Occurs(lstrip(ch.text), text)
                 /\ \A k \in 1..Len(ch.children) :
                       Dropped(ch.children[k]) =>
                           /\ NotEmitted(ch.children[k])
                           /\ Occurs(lstrip(ch.children[k].text), text)

\* C9, amended: as stated, but the text of a dropped EM inside an ALT appears
\* in doc_text when the EM lies in the segment that was chosen.
C9_NoNullLabels ==
    pc = "done" =>
        /\ EveryLabelAccepted
        /\ \A i \in 1..Len(doc.children) :
              LET ch == doc.children[i]
              IN /\ Dropped(ch) =>
                       NotEmitted(ch) /\ Occurs(lstrip(ch.text), text)
                 /\ \A k \in 1..Len(ch.children) :
                       Dropped(ch.children[k]) =>
                           /\ NotEmitted(ch.children[k])
                           /\ SegOf(ch, k) = converted[i].N_max =>
                                 Occurs(lstrip(ch.children[k].text), text)

\* C9: a returned document whose ALT's chosen segment holds a dropped EM with
\* text next to an emitted one.
C9_Witness ==
    /\ pc = "done"
    /\ entities # <<>>
    /\ \E i \in 1..Len(doc.children) :
          \E k \in 1..Len(doc.children[i].children) :
              /\ Dropped(doc.children[i].children[k])
              /\ lstrip(doc.children[i].children[k].text) = <<Comma>>
              /\ SegOf(doc.children[i], k) = converted[i].N_max

\* The IDs of the EM markers in source order: the EM children of the DOC and
\* the EM children of each ALT that lie in its chosen segment
RECURSIVE SourceIDs(_, _)
SourceIDs(children, conv) ==
    IF children = <<>> THEN <<>>
    ELSE LET ch == Head(children)
             here == IF ch.tag = "EM" THEN <<ch.ID>>
                     ELSE IDsAt(ch, {k \in 1..Len(ch.children) :
                                        SegOf(ch, k) = Head(conv).N_max})
         IN here \o SourceIDs(Tail(children), Tail(conv))

RECURSIVE IsSubseq(_, _)
IsSubseq(a, b) ==
    IF a = <<>> THEN TRUE
    ELSE IF b = <<>> THEN FALSE
    ELSE IF Head(a) = Head(b) THEN IsSubseq(Tail(a), Tail(b))
    ELSE IsSubseq(a, Tail(b))

\* C10: the entity_id values of a returned Document are a subsequence of the
\* EM markers' IDs in source order (EM children of the DOC, EMs inside the
\* chosen segment of an ALT), none of them twice.
C10_EntityOrder ==
    pc = "done" =>
        /\ IsSubseq(EntityIDs(entities), SourceIDs(doc.children, converted))
        /\ \A i, j \in 1..Len(entities) :
              entities[i].entity_id = entities[j].entity_id => i = j

----------------------------------------------------------------------------
(* convert_document as a function of a whole DOC element, for the corpus      *)
(* driver: the same steps as above, over an element that is already read.     *)

MaxDocs == 3

RECURSIVE iterate_alt_loop(_, _, _, _)
iterate_alt_loop(children, txt, ents, sel) ==
    IF children = <<>> THEN Flat("", txt, ents)
    ELSE IF Head(children).tag # "EM"
         THEN iterate_alt_loop(Tail(children), txt, ents, sel)
         ELSE LET r == iterate_alt_em(txt, ents, Head(children), sel)
              IN IF r.raised # "" THEN r
                 ELSE iterate_alt_loop(Tail(children), r.text, r.entities, sel)

\* XMLtoJSON._iterate_alt_tag
iterate_alt_tag(alt_tag, sel) ==
    iterate_alt_loop(alt_tag.children,
                     IF alt_tag.text # NoneText THEN alt_tag.text ELSE <<>>,
                     <<>>, sel)

\* _convert_tag, lines 288-292: the EM branch
convert_tag_em(err, entity) ==
    IF err # "" THEN Flat(err, <<>>, <<>>)
    ELSE Flat("", entity.text,
              IF entity.label # NoLabel THEN <<entity>> ELSE <<>>)

\* _convert_tag, lines 295-297: what _handle_alt returned becomes the tag's
convert_tag_choice(h) == Flat(h.raised, h.group_text, h.chosen_entities)

\* _convert_tag, lines 294-297 and _handle_alt, lines 209-211: the ALT branch,
\* it being what _iterate_alt_tag returned
convert_tag_alt(it, strategy) ==
    IF it.raised # "" THEN it
    ELSE convert_tag_choice(handle_alt(it.text, it.entities, strategy))

\* _convert_tag, lines 299-303: own is what the branches made of the tag
convert_tag_return(own, r) ==
    IF own.raised # "" THEN own ELSE Flat(r.raised, r.text, own.entities)

convert_tag_finish(own, tail) ==
    convert_tag_return(own, convert_tag_tail(own.text, tail))

\* XMLtoJSON._convert_tag
convert_tag(tag, sel, strategy) ==
    convert_tag_finish(
        IF tag.tag = "EM"
        THEN convert_tag_em(convert_entity_raises(tag), convert_entity(tag, sel))
        ELSE IF tag.tag = "ALT"
        THEN convert_tag_alt(iterate_alt_tag(tag, sel), strategy)
        ELSE Flat("", <<>>, <<>>),
        tag.tail)

RECURSIVE convert_document_loop(_, _, _, _, _)
RECURSIVE convert_document_fold(_, _, _, _, _, _)
RECURSIVE convert_document_next(_, _, _, _)

\* convert_document, lines 319-333: the loop over the DOC's children
convert_document_loop(children, txt, ents, sel, strategy) ==
    IF children = <<>> THEN Flat("", txt, ents)
    ELSE convert_document_fold(children, txt, ents, sel, strategy,
                               convert_tag(Head(children), sel, strategy))

\* lines 321-333, t being what _convert_tag returned for the first child
convert_document_fold(children, txt, ents, sel, strategy, t) ==
    IF t.raised # "" THEN Flat(t.raised, txt, ents)
    ELSE convert_document_next(children, sel, strategy,
                               fold_tag(txt, ents, t.text, t.entities))

\* the loop goes on with the text and entities f
convert_document_next(children, sel, strategy, f) ==
    IF f.raised # "" THEN f
    ELSE convert_document_loop(Tail(children), f.text, f.entities, sel, strategy)

NoDocument == [doc_id |-> NoneText, doc_text |-> <<>>, entities |-> <<>>]

\* convert_document, lines 335-339, r being what the loop left
convert_document_return(d, r) ==
    IF r.raised # "" THEN [raised |-> r.raised, document |-> NoDocument]
    ELSE IF d.DOCID = NoneText
    THEN [raised |-> "KeyError", document |-> NoDocument]
    ELSE [raised |-> "",
          document |-> [doc_id |-> d.DOCID, doc_text |-> r.text,
                        entities |-> r.entities]]

\* XMLtoJSON.convert_document
convert_document(d, sel, strategy) ==
    IF d.tag # "DOC" THEN [raised |-> "ValueError", document |-> NoDocument]
    ELSE convert_document_return(
             d, convert_document_loop(
                    d.children,
                    IF d.text # NoneText THEN d.text ELSE <<>>,
                    <<>>, sel, strategy))

\* The stepwise conversion above and the function agree on what is returned
StepwiseAgrees ==
    pc = "done" =>
        convert_document(doc, selective, alt_strategy)
            = [raised |-> "", document |-> Document]

----------------------------------------------------------------------------
(* Corpus driver: convert_xml(xml, **kwargs). *)

\* Values a caller may pass for selective, and whether Python takes them as
\* true in `if selective:`
SelectiveArgs == {"True", "False", "'total'", "None"}

Truthy(v) == v \notin {"False", "None", "''", "0"}

StrategyArgs == Strategies \cup {"first"}

\* XMLtoJSON.__init__
init(kw) ==
    IF kw.alt_strategy \notin Strategies
    THEN [raised |-> "ValueError", selective |-> Truthy(kw.selective),
          alt_strategy |-> ""]
    ELSE [raised |-> "", selective |-> Truthy(kw.selective),
          alt_strategy |-> kw.alt_strategy]

Node(tg, docid, txt, children) ==
    [tag |-> tg, DOCID |-> docid, ID |-> NoneText, CATEG |-> NoneText,
     text |-> txt, tail |-> NoneText, children |-> children]

\* The elements of tag DOC among nodes and below them, in document order
RECURSIVE descendants(_)
descendants(nodes) ==
    IF nodes = <<>> THEN <<>>
    ELSE (IF Head(nodes).tag = "DOC" THEN <<Head(nodes)>> ELSE <<>>)
         \o descendants(Head(nodes).children)
         \o descendants(Tail(nodes))

\* tree.findall('//DOC'): lxml searches './/DOC' from the root element, that
\* is below the root and not the root itself
findall(root) == descendants(root.children)

\* The nodes a corpus is made of; id is the DOCID the node carries
Shapes(id) ==
    { Node("DOC", id, <<Letter>>, <<>>),
      Node("DOC", id, NoneText,
           <<EM(<<"1">>, <<"PESSOA">>, <<Letter>>, <<Letter>>)>>),
      Node("DOC", id, NoneText,
           <<[NoElem EXCEPT !.tag = "ALT", !.text = <<Letter, Pipe>>,
                            !.children =
                               <<EM(<<"1">>, <<"OBRA">>, <<Letter>>, NoneText)>>]>>),
      Node("DOC", NoneText, <<Letter>>, <<>>),
      Node("DOC", id, NoneText,
           <<EM(NoneText, <<"PESSOA">>, <<Letter>>, NoneText)>>),
      Node("DOC", id, NoneText,
           <<[NoElem EXCEPT !.tag = "ALT", !.text = <<Letter>>]>>),
      Node("P", NoneText, NoneText, <<>>),
      Node("P", NoneText, NoneText, <<Node("DOC", id \o <<"b">>, <<Letter>>, <<>>)>>),
      Node("DOC", id, NoneText,
           <<Node("DOC", id \o <<"b">>, <<Letter, Letter>>, <<>>)>>) }

DocIDs == << <<"HAREM-1">>, <<"HAREM-2">>, <<"HAREM-3">>, <<"HAREM-4">> >>

\* Sequences of at most n nodes, the k-th from the top carrying the k-th DOCID
Corpora(n) ==
    UNION {{c \in [1..k -> UNION {Shapes(DocIDs[i]) : i \in 1..k}] :
               \A i \in 1..k : c[i] \in Shapes(DocIDs[i])} : k \in 0..n}

InitXml ==
    /\ pc = "xml_call"
    /\ \E sel \in SelectiveArgs, st \in StrategyArgs :
          kwargs = [selective |-> sel, alt_strategy |-> st]
    /\ \E tg \in {"colHAREM", "DOC"}, c \in Corpora(MaxDocs) :
          tree = Node(tg, <<"HAREM-0">>, NoneText, c)
    /\ found = <<>>
    /\ docs = <<>>
    /\ selective = FALSE
    /\ alt_strategy = ""
    /\ elem = NoElem
    /\ ret = NoEntity
    /\ raised = ""
    /\ doc = NoDoc
    /\ text = <<>>
    /\ entities = <<>>
    /\ tag_text = <<>>
    /\ tag_entities = <<>>
    /\ alt_text = <<>>
    /\ alt_entities = <<>>
    /\ N_max = -1
    /\ converted = <<>>

\* convert_xml, line 345: converter = cls(**kwargs)
ConvertXmlConstruct ==
    /\ pc = "xml_call"
    /\ LET c == init(kwargs)
       IN IF c.raised # ""
          THEN /\ pc' = "raised"
               /\ raised' = c.raised
               /\ UNCHANGED <<selective, alt_strategy>>
          ELSE /\ pc' = "xml_parse"
               /\ raised' = raised
               /\ selective' = c.selective
               /\ alt_strategy' = c.alt_strategy
    /\ UNCHANGED xml_vars
    /\ UNCHANGED <<elem, ret>>
    /\ UNCHANGED doc_vars

\* convert_xml, lines 346-349: the tree is parsed and its DOC nodes are found
ConvertXmlFindAll ==
    /\ pc = "xml_parse"
    /\ pc' = "xml_loop"
    /\ found' = findall(tree)
    /\ docs' = <<>>
    /\ UNCHANGED <<kwargs, tree, selective, alt_strategy, elem, ret, raised>>
    /\ UNCHANGED doc_vars

convert_xml_step_skip(fnd, dcs, r) ==
    IF r.raised # ""
    THEN [raised |-> "", found |-> Tail(fnd), docs |-> dcs]
    ELSE [raised |-> "", found |-> Tail(fnd), docs |-> Append(dcs, r.document)]

\* convert_xml, lines 349-351: one pass of the loop over the DOC nodes, r
\* being what convert_document did with the first of them
convert_xml_step(fnd, dcs, r) ==
    IF r.raised # ""
    THEN [raised |-> r.raised, found |-> fnd, docs |-> dcs]
    ELSE [raised |-> "", found |-> Tail(fnd), docs |-> Append(dcs, r.document)]

ConvertXmlDoc ==
    /\ pc = "xml_loop"
    /\ found # <<>>
    /\ LET r == convert_xml_step(
                    found, docs,
                    convert_document(Head(found), selective, alt_strategy))
       IN /\ raised' = r.raised
          /\ pc' = IF r.raised # "" THEN "raised" ELSE "xml_loop"
          /\ found' = r.found
          /\ docs' = r.docs
    /\ UNCHANGED <<kwargs, tree, selective, alt_strategy, elem, ret>>
    /\ UNCHANGED doc_vars

\* convert_xml, line 353: return docs
ConvertXmlReturn ==
    /\ pc = "xml_loop"
    /\ found = <<>>
    /\ pc' = "xml_returned"
    /\ UNCHANGED xml_vars
    /\ UNCHANGED <<selective, alt_strategy, elem, ret, raised>>
    /\ UNCHANGED doc_vars

NextXml ==
    \/ ConvertXmlConstruct
    \/ ConvertXmlFindAll
    \/ ConvertXmlDoc
    \/ ConvertXmlReturn

SpecXml == InitXml /\ [][NextXml]_vars

\* Every DOC element of the tree, the root included, in document order
AllDocs == descendants(<<tree>>)

Converts(d) == convert_document(d, selective, alt_strategy).raised = ""

\* C11: when every DOC node converts without error, convert_xml returns one
\* Document per DOC node anywhere in the tree, in document order, each with
\* that node's DOCID as doc_id.
C11_OneDocumentPerDOC ==
    (pc = "xml_returned" /\ \A i \in 1..Len(AllDocs) : Converts(AllDocs[i])) =>
        /\ Len(docs) = Len(AllDocs)
        /\ \A i \in 1..Len(docs) : docs[i].doc_id = AllDocs[i].DOCID

\* The DOC nodes convert_xml visits, and the first of them that does not
\* convert (0 when all do)
Visited == findall(tree)

FirstRaising ==
    IF \A i \in 1..Len(Visited) : Converts(Visited[i]) THEN 0
    ELSE CHOOSE i \in 1..Len(Visited) :
            /\ ~Converts(Visited[i])
            /\ \A j \in 1..(i - 1) : Converts(Visited[j])

\* C12: if converting a DOC node raises, convert_xml raises that error and
\* returns no list: it stops at the first offending DOC (earlier Documents are
\* not returned, later DOC nodes are not processed, the offending one is not
\* skipped), and it never returns once a DOC has failed.
C12_AllOrNothing ==
    /\ [](pc = "xml_returned" => FirstRaising = 0)
    /\ []((pc = "raised" /\ init(kwargs).raised = "") =>
            /\ FirstRaising > 0
            /\ raised = convert_document(Visited[FirstRaising], selective,
                                         alt_strategy).raised
            /\ Len(docs) = FirstRaising - 1
            /\ found = SubSeq(Visited, FirstRaising, Len(Visited)))
    /\ [][pc = "raised" => pc' = "raised"]_vars

\* C12: the second of three DOC nodes failed, after one Document was made and
\* with one DOC left
C12_Witness ==
    /\ pc = "raised"
    /\ raised \in {"KeyError", "HypothesisViolation"}
    /\ Len(docs) = 1
    /\ Len(found) = 2

\* C13: an unknown alt_strategy or an unknown scenario value (selective is
\* neither True nor False) is rejected with an error when the converter is
\* constructed, before any document is processed; a constructed converter
\* holds a valid scenario and a valid strategy.
C13_ConfigRejected ==
    pc # "xml_call" =>
        IF kwargs.alt_strategy \notin Strategies
              \/ kwargs.selective \notin {"True", "False"}
        THEN pc = "raised" /\ raised = "ValueError" /\ found = <<>> /\ docs = <<>>
        ELSE /\ alt_strategy \in Strategies
             /\ accepted_labels(selective) \in {SELECTIVE_CATEGS, ALL_CATEGS}

----------------------------------------------------------------------------
(* Properties of the Alternative-Block Resolver's parts. *)

\* C14: when the flattened text of an ALT holds no '|', the step that splits
\* it raises HypothesisViolation with no entity partitioned or chosen, and
\* neither _handle_alt nor convert_document returns anything after it.
C14_MalformedAlt ==
    /\ [][(pc = "alt" /\ elem' = elem /\ pc' # "alt"
              /\ \A i \in 1..Len(alt_text) : alt_text[i] # Pipe) =>
            /\ pc' = "raised"
            /\ raised' = "HypothesisViolation"
            /\ tag_entities' = <<>>
            /\ N_max' = -1
            /\ UNCHANGED <<doc, text, entities>>]_vars
    /\ [][pc = "raised" => pc' = "raised"]_vars

\* C14: an ALT holding an accepted entity and no '|' ended convert_document
C14_Witness ==
    /\ pc = "raised"
    /\ raised = "HypothesisViolation"
    /\ doc.tag = "DOC"
    /\ alt_entities # <<>>
    /\ \A i \in 1..Len(alt_text) : alt_text[i] # Pipe

\* The segment of the probe string txt the offset off lies in (0-based): the
\* number of '|' before it
SegmentAt(txt, off) ==
    Cardinality({i \in 1..Min(off, Len(txt)) : txt[i] = Pipe})

\* The length of the segments before segment g (0-based) and their delimiters
RECURSIVE SegmentStart(_, _)
SegmentStart(alt_texts, g) ==
    IF g = 0 THEN 0
    ELSE SegmentStart(alt_texts, g - 1) + Len(alt_texts[g]) + 1

\* The entities whose start offset lies in segment g, rebased to its start
ExpectedGroup(txt, ents, g) ==
    ShiftAll(SelectSeq(ents, LAMBDA e : SegmentAt(txt, e.start_offset) = g),
             0 - SegmentStart(split(txt, Pipe), g))

\* C15: _split_alternatives puts every entity in the group of the segment
\* whose span contains its start offset, rebased by the length of the earlier
\* segments and their delimiters, also when segments without entities lie
\* before or between the entity-bearing ones.
C15_EntityPartition ==
    pc = "returned" =>
        LET sp == split_alternatives(alt_text, alt_entities)
        IN \A g \in 0..(Len(sp.alt_texts) - 1) :
              sp.groups[g + 1] = ExpectedGroup(alt_text, alt_entities, g)

\* C16: every entity _iterate_alt_tag returns has offsets into the probe
\* string it returns, probe[start_offset:end_offset] being the entity's text,
\* also when a guard space went between the text so far and the entity.
C16_FlattenedOffsets ==
    pc \in {"alt", "returned"} =>
        \A i \in 1..Len(alt_entities) :
            Slice(alt_text, alt_entities[i].start_offset,
                  alt_entities[i].end_offset) = alt_entities[i].text

\* The score of segment seg of alt by what the source holds: the number of
\* its accepted EMs, or the length of their texts taken together
RECURSIVE CoverageOf(_, _)
CoverageOf(alt, S) ==
    IF S = {} THEN 0
    ELSE LET k == CHOOSE x \in S : TRUE
         IN Len(lstrip(alt.children[k].text)) + CoverageOf(alt, S \ {k})

SegmentScore(alt, seg) ==
    IF alt_strategy = "most_entities" THEN Cardinality(AcceptedIn(alt, seg))
    ELSE CoverageOf(alt, AcceptedIn(alt, seg))

\* The lowest-index segment among those of maximal score
BestSegment(alt) ==
    CHOOSE g \in 0..(SegCount(alt) - 1) :
        /\ \A h \in 0..(SegCount(alt) - 1) :
              SegmentScore(alt, h) <= SegmentScore(alt, g)
        /\ \A h \in 0..(g - 1) : SegmentScore(alt, h) < SegmentScore(alt, g)

\* C17: under both strategies _handle_alt returns the lowest-index segment
\* among those of maximal score (number of accepted entities, or sum of their
\* text lengths); a segment without accepted entity scores zero, so with no
\* accepted entity at all the first segment is returned with no entities.
C17_TieBreaking ==
    (pc = "returned" /\ elem.tag = "ALT") =>
        /\ N_max = BestSegment(elem)
        /\ tag_text = SegText(alt_text, BestSegment(elem))
        /\ EntityIDs(tag_entities) = IDsAt(elem, AcceptedIn(elem, BestSegment(elem)))

----------------------------------------------------------------------------
\* C18: convert_document raises only for a node that is not a DOC
\* (ValueError), for an EM without ID or a DOC without DOCID (KeyError) and
\* for an ALT of fewer than two segments (HypothesisViolation); for every
\* other DOC tree it returns a Document.
C18_DocumentedErrorsOnly ==
    pc = "raised" =>
        \/ raised = "ValueError" /\ doc.tag # "DOC"
        \/ /\ raised = "KeyError"
           /\ \/ elem.tag = "EM" /\ elem.ID = NoneText
              \/ doc.DOCID = NoneText
        \/ /\ raised = "HypothesisViolation"
           /\ elem.tag = "ALT"
           /\ \A i \in 1..Len(alt_text) : alt_text[i] # Pipe

====
